---- MODULE Spec2Model ----
(***************************************************************************)
(* Model of tsdb/db.go: the in-memory block Chain, its commit to the       *)
(* backing JSON file, the ChainSet registry and its flush scheduler, and   *)
(* the ChainReadOnly view.                                                 *)
(*                                                                         *)
(* Threads: producers calling Append, one scheduler goroutine per call of  *)
(* ChainSet.Run, callers blocked in ChainSet.Cancel.  Every access to      *)
(* shared memory that another thread can observe is a step of its own.     *)
(***************************************************************************)
EXTENDS Integers, Sequences, FiniteSets, TLC

\* ------------------------------------------------------------------ bounds
MaxAppends == 2      \* Append calls made in one behaviour
MaxRuns == 2         \* calls of ChainSet.Run
MaxCancels == 1      \* calls of ChainSet.Cancel
MaxRegisters == 2    \* calls of ChainSet.Register
MaxIdle == 1         \* inactivity count from which a scheduler with nothing to flush stays asleep
MaxInits == 2        \* Init calls on one chain without an Append in between

\* --------------------------------------------------------------- constants
FlushAsTime == 0
FlushAsSpace == 1

\* A uint32 is kept as its two 16-bit halves (the model checker's integers are 32-bit signed)
HalfMod == 65536
Zero32 == [hi |-> 0, lo |-> 0]
Inc32(x) == IF x.lo + 1 < HalfMod
            THEN [hi |-> x.hi, lo |-> x.lo + 1]
            ELSE [hi |-> (x.hi + 1) % HalfMod, lo |-> 0]

ChainIds == {"c1", "c2"}
Names == {"a", "b"}
Producers == {"p1", "p2"}
SchedIds == 1..MaxRuns
Nil == "nil"

\* Paths: every chain has its own backing file; OtherPath belongs to no chain.
OtherPath == "other.json"
PathOf(c) == IF c = "c1" THEN "db/c1.json" ELSE "db/c2.json"
Paths == {PathOf(c) : c \in ChainIds} \cup {OtherPath}

\* ----------------------------------------------------------------- strings
\* A Go string is a sequence of code units; "xFF" stands for a byte that is
\* not valid UTF-8 and "uFFFD" for the Unicode replacement character.
InvalidUnits == {"xFF"}
Replacement == "uFFFD"
BlockDataSeparator == "|"
BlockType == <<"p", "i", "n", "g">>
\* what each producer measures: the second one reports raw bytes
ValueOf(p) == IF p = "p1" THEN <<"2", "0", "0">> ELSE <<"3", "xFF", "0">>

\* s(st): fmt.Sprintf("%v", st) on the small integers of the model
Digits == <<"0", "1", "2", "3", "4", "5", "6", "7", "8", "9">>
s(st) == IF st < 10 THEN <<Digits[st + 1]>> ELSE <<Digits[(st \div 10) + 1], Digits[(st % 10) + 1]>>

\* fmt.Sprintf("%v", t.Month()): a time.Month prints as its English name
January == <<"J", "a", "n", "u", "a", "r", "y">>

\* GetTimeStampCalc at clock reading t (t seconds into 1 January 2020, 00:00)
GetTimeStampCalc(t) ==
    s(20) \o s(20) \o <<BlockDataSeparator>> \o January \o <<BlockDataSeparator>> \o s(1)
        \o <<BlockDataSeparator>> \o s(0) \o <<BlockDataSeparator>> \o s(0)
        \o <<BlockDataSeparator>> \o s(t)

\* GetNormalizedTimeCalc at clock reading t
GetNormalizedTimeCalc(t) == t

GetNewBlock(blockType, value, t) ==
    [Timestamp |-> GetTimeStampCalc(t),
     NormalizedTime |-> GetNormalizedTimeCalc(t),
     Datapoint |-> value,
     Type |-> blockType]

\* -------------------------------------------------------------------- JSON
\* encoding/json writes a string coerced to valid UTF-8
CoerceUTF8(str) == [i \in DOMAIN str |-> IF str[i] \in InvalidUnits THEN Replacement ELSE str[i]]

\* One Block as the JSON object its struct tags give
EncodeBlock(b) ==
    ("datapoint" :> CoerceUTF8(b.Datapoint)) @@ ("normalized-time" :> b.NormalizedTime)
        @@ ("type" :> CoerceUTF8(b.Type)) @@ ("timestamp" :> CoerceUTF8(b.Timestamp))

DecodeBlock(j) ==
    [Datapoint |-> j["datapoint"], NormalizedTime |-> j["normalized-time"],
     Type |-> j["type"], Timestamp |-> j["timestamp"]]

\* parseToJSON: the JSON array of a block slice
parseToJSON(a) == [i \in DOMAIN a |-> EncodeBlock(a[i])]

\* loadFromStorage: the block slice of a JSON array
loadFromStorage(raw) == [i \in DOMAIN raw |-> DecodeBlock(raw[i])]

\* wrong order: the new blocks in front of the persisted ones
mergeBlocksSlicePrepends(oldSlice, newSlice) == newSlice \o oldSlice

mergeBlocksSlice(oldSlice, newSlice) == oldSlice \o newSlice

\* A file: absent, or a JSON array
NoFile == [exists |-> FALSE, data |-> <<>>]
FileOf(data) == [exists |-> TRUE, data |-> data]

\* A block persisted by an earlier run of the program
OldBlock == GetNewBlock(BlockType, <<"9">>, 0)
PriorFiles == {NoFile, FileOf(<<>>), FileOf(parseToJSON(<<OldBlock>>))}

\* ------------------------------------------------------------------- state
VARIABLES
    chain,          \* ChainIds -> the fields of the Chain object
    mux,            \* ChainIds -> Chain.mux is locked
    file,           \* Paths -> file content
    Cmap,           \* Names -> chain id or Nil
    csMux,          \* ChainSet.mux is write-locked
    flushType,      \* ChainSet.flushType
    cancelSenders,  \* callers blocked in Cancel on the unbuffered channel
    sched,          \* SchedIds -> scheduler goroutine: pc and locals
    prod,           \* Producers -> producer thread: pc and locals
    view,           \* the ChainReadOnly: Path and *Chain
    getResult,      \* what the last ChainSet.Get returned
    crashed,        \* the process has panicked
    now,            \* the clock
    runCalls,       \* calls of Run so far
    cancelCalls,    \* calls of Cancel so far
    regCalls,       \* calls of Register so far
    appended,       \* history: ChainIds -> the Append calls that reached the chain, in order,
                    \*   each with the chain ChainSet.Append returned
    initFile,       \* history: Paths -> the file content when the program started serving
    clean,          \* history: ChainIds -> a commit completed and no Append has written since
    lastReg,        \* history: Names -> the chain of the latest Register call
    runAfterCancel, \* history: Run was called after a Cancel
    visits,         \* history: SchedIds -> ChainIds -> visits of the chain in the tick in progress
    inits,          \* history: ChainIds -> Init calls on the chain since its latest Append
    idle,           \* history: ChainIds -> visits that found the chain not dirty since its
                    \*   latest Append
    fresh           \* history: the view was refreshed and its file has not been written since

vars == <<chain, mux, file, Cmap, csMux, flushType, cancelSenders, sched, prod, view,
          getResult, crashed, now, runCalls, cancelCalls, regCalls, appended, initFile,
          clean, lastReg, runAfterCancel, fresh, visits, inits, idle>>

\* the variables the threads of one kind leave alone
chainVars == <<chain, mux, file>>
setVars == <<Cmap, csMux, flushType, cancelSenders>>
readVars == <<view, getResult, fresh>>
callVars == <<now, runCalls, cancelCalls, regCalls, runAfterCancel>>
histVars == <<appended, initFile, clean, lastReg, visits, inits, idle>>

\* ------------------------------------------------------------ construction
NewChain(path) ==
    [Path |-> path, Chain |-> <<>>, LengthElements |-> 0,
     containsNewBlocks |-> TRUE, inActiveIterations |-> Zero32]

\* the file is written as an empty array whether it could be read or not
ChainInitTruncates(c, f) ==
    [chain |-> [c EXCEPT !.LengthElements = 0, !.Chain = <<>>], file |-> FileOf(<<>>)]

\* Chain.Init on a chain whose file holds f: the chain and the file afterwards
ChainInit(c, f) ==
    IF ~f.exists
    THEN [chain |-> [c EXCEPT !.LengthElements = 0, !.Chain = <<>>], file |-> FileOf(<<>>)]
    ELSE [chain |-> [c EXCEPT !.Chain = <<>>, !.LengthElements = 0], file |-> f]

ReadOnly(path) == [Path |-> path, Chain |-> <<>>]

SchedOff == [pc |-> "off", todo |-> {}, cur |-> Nil, tmp |-> Zero32]
ProdIdle == [pc |-> "idle", c |-> Nil, b |-> Nil, via |-> Nil]

\* The program after NewChain(path).Init() on every chain and NewChainSet(ft, d),
\* with the registry holding cmap and `started` schedulers running.
Setup(prior, ft, cmap, started) ==
    /\ chain = [c \in ChainIds |-> ChainInit(NewChain(PathOf(c)), prior[c]).chain]
    /\ file = [p \in Paths |->
                 IF p = OtherPath THEN NoFile
                 ELSE LET c == CHOOSE x \in ChainIds : PathOf(x) = p
                      IN ChainInit(NewChain(p), prior[c]).file]
    /\ initFile = [p \in Paths |->
                 IF p = OtherPath THEN NoFile
                 ELSE LET c == CHOOSE x \in ChainIds : PathOf(x) = p
                      IN ChainInit(NewChain(p), prior[c]).file]
    /\ mux = [c \in ChainIds |-> FALSE]
    /\ Cmap = cmap
    /\ lastReg = cmap
    /\ csMux = FALSE
    /\ flushType = ft
    /\ cancelSenders = 0
    /\ sched = [i \in SchedIds |-> IF i <= started THEN [SchedOff EXCEPT !.pc = "select"]
                                   ELSE SchedOff]
    /\ prod = [p \in Producers |-> ProdIdle]
    /\ view = ReadOnly(PathOf("c1"))
    /\ fresh = FALSE
    /\ getResult = [name |-> Nil, chain |-> Nil, ok |-> FALSE]
    /\ crashed = FALSE
    /\ now = 1
    /\ runCalls = started
    /\ cancelCalls = 0
    /\ regCalls = 0
    /\ runAfterCancel = FALSE
    /\ appended = [c \in ChainIds |-> <<>>]
    /\ clean = [c \in ChainIds |-> FALSE]
    /\ visits = [i \in SchedIds |-> [c \in ChainIds |-> 0]]
    /\ inits = [c \in ChainIds |-> 1]
    /\ idle = [c \in ChainIds |-> 0]

\* the first chain may come with a file of an earlier run, the second is new
Priors == {f \in [ChainIds -> PriorFiles] : f["c2"] = NoFile}
NoNames == [n \in Names |-> Nil]
\* registries: one chain, two chains, one chain under both names
Registries == {[NoNames EXCEPT !["a"] = "c1"],
               [NoNames EXCEPT !["a"] = "c1", !["b"] = "c2"],
               [NoNames EXCEPT !["a"] = "c1", !["b"] = "c1"]}

\* A set serving with its scheduler running: NewChainSet(FlushAsTime, d) and Run()
Init ==
    \E prior \in Priors, cmap \in Registries : Setup(prior, FlushAsTime, cmap, 1)

\* A set of either flush type on which Run has not been called yet
InitCancel ==
    \E prior \in Priors, ft \in {FlushAsTime, FlushAsSpace} :
        Setup(prior, ft, [NoNames EXCEPT !["a"] = "c1"], 0)

\* A running set with nothing registered yet; the first chain's file holds the
\* block of an earlier run
InitRegistry ==
    \E prior \in {f \in Priors : f["c1"].data # <<>>} : Setup(prior, FlushAsTime, NoNames, 1)

\* The program after NewChain(path) on every chain and NewChainSet(FlushAsTime, d),
\* Register and Run, before any Init: the files are as an earlier run left them.
InitNew ==
    \E prior \in Priors :
        /\ chain = [c \in ChainIds |-> NewChain(PathOf(c))]
        /\ file = [p \in Paths |->
                     IF p = OtherPath THEN NoFile
                     ELSE prior[CHOOSE x \in ChainIds : PathOf(x) = p]]
        /\ initFile = file
        /\ mux = [c \in ChainIds |-> FALSE]
        /\ Cmap = [NoNames EXCEPT !["a"] = "c1", !["b"] = "c2"]
        /\ lastReg = Cmap
        /\ csMux = FALSE
        /\ flushType = FlushAsTime
        /\ cancelSenders = 0
        /\ sched = [i \in SchedIds |-> IF i = 1 THEN [SchedOff EXCEPT !.pc = "select"]
                                       ELSE SchedOff]
        /\ prod = [p \in Producers |-> ProdIdle]
        /\ view = ReadOnly(PathOf("c1"))
        /\ fresh = FALSE
        /\ getResult = [name |-> Nil, chain |-> Nil, ok |-> FALSE]
        /\ crashed = FALSE
        /\ now = 1
        /\ runCalls = 1
        /\ cancelCalls = 0
        /\ regCalls = 0
        /\ runAfterCancel = FALSE
        /\ appended = [c \in ChainIds |-> <<>>]
        /\ clean = [c \in ChainIds |-> FALSE]
        /\ visits = [i \in SchedIds |-> [c \in ChainIds |-> 0]]
        /\ inits = [c \in ChainIds |-> 0]
        /\ idle = [c \in ChainIds |-> 0]

\* ------------------------------------------------------------- Chain.Init
\* A call of c.Init().  Init takes no lock; it reads the file and writes the chain's
\* fields and, when the file could not be read, the file.
ChainInitCall(c) ==
    /\ ~crashed
    /\ inits[c] < MaxInits
    /\ LET r == ChainInit(chain[c], file[chain[c].Path])
       IN /\ chain' = [chain EXCEPT ![c] = r.chain]
          /\ file' = [file EXCEPT ![chain[c].Path] = r.file]
          /\ fresh' = (fresh /\ (view.Path # chain[c].Path \/ r.file = file[chain[c].Path]))
    /\ inits' = [inits EXCEPT ![c] = @ + 1]
    /\ UNCHANGED <<mux, setVars, sched, prod, view, getResult, crashed, callVars,
                   appended, initFile, clean, lastReg, visits, idle>>

\* ------------------------------------------------------------ Chain.Append
\* A producer calls ChainSet.Append(name, GetNewBlock(blockType, value)).
ChainSetAppend(p, name, blockType, value) ==
    /\ ~crashed
    /\ prod[p].pc = "idle"
    /\ now <= MaxAppends
    /\ now' = now + 1
    /\ IF Cmap[name] = Nil
       THEN /\ crashed' = TRUE
            /\ UNCHANGED prod
       ELSE /\ prod' = [prod EXCEPT ![p] = [pc |-> "lock", c |-> Cmap[name],
                                             b |-> GetNewBlock(blockType, value, now), via |-> name]]
            /\ UNCHANGED crashed
    /\ UNCHANGED <<chainVars, setVars, sched, readVars, histVars,
                   runCalls, cancelCalls, regCalls, runAfterCancel>>

\* A producer that holds the chain's address calls c.Append(GetNewBlock(blockType,
\* value)) on it, not going through the set.
ChainAppend(p, c, blockType, value) ==
    /\ ~crashed
    /\ prod[p].pc = "idle"
    /\ now <= MaxAppends
    /\ now' = now + 1
    /\ prod' = [prod EXCEPT ![p] = [pc |-> "lock", c |-> c,
                                     b |-> GetNewBlock(blockType, value, now), via |-> Nil]]
    /\ UNCHANGED <<chainVars, setVars, sched, readVars, histVars, crashed,
                   runCalls, cancelCalls, regCalls, runAfterCancel>>

\* no wait for the mutex
AppendLockNoWait(p) ==
    /\ ~crashed
    /\ prod[p].pc = "lock"
    /\ mux' = [mux EXCEPT ![prod[p].c] = TRUE]
    /\ prod' = [prod EXCEPT ![p].pc = "body"]
    /\ UNCHANGED <<chain, file, setVars, sched, readVars, histVars, callVars, crashed>>

\* c.mux.Lock()
AppendLock(p) ==
    /\ ~crashed
    /\ prod[p].pc = "lock"
    /\ ~mux[prod[p].c]
    /\ mux' = [mux EXCEPT ![prod[p].c] = TRUE]
    /\ prod' = [prod EXCEPT ![p].pc = "body"]
    /\ UNCHANGED <<chain, file, setVars, sched, readVars, histVars, callVars, crashed>>

\* the dirty flag is left as it was
AppendBodyKeepsFlag(p) ==
    /\ ~crashed
    /\ prod[p].pc = "body"
    /\ LET c == prod[p].c
           grown == Append(chain[c].Chain, prod[p].b)
       IN /\ chain' = [chain EXCEPT ![c].Chain = grown,
                                    ![c].LengthElements = Len(grown),
                                    ![c].inActiveIterations = IF @ # Zero32 THEN Zero32 ELSE @]
          /\ appended' = [appended EXCEPT ![c] = Append(@, [b |-> prod[p].b, via |-> prod[p].via,
                                                              ret |-> IF prod[p].via = Nil THEN c
                                                                      ELSE Cmap[prod[p].via]])]
          /\ clean' = [clean EXCEPT ![c] = FALSE]
          /\ inits' = [inits EXCEPT ![c] = 0]
          /\ idle' = [idle EXCEPT ![c] = 0]
          /\ mux' = [mux EXCEPT ![c] = FALSE]
    /\ prod' = [prod EXCEPT ![p] = ProdIdle]
    /\ UNCHANGED <<file, setVars, sched, readVars, callVars, crashed, initFile, lastReg, visits>>

\* c.Chain = append(c.Chain, b); c.LengthElements = len(c.Chain); c.containsNewBlocks = true;
\* if c.inActiveIterations != 0 { c.inActiveIterations = 0 }; the deferred c.mux.Unlock().
\* Of these writes other threads read only the flag and the counter, and only without
\* the lock, so one step shows them every order they can see.
\* ChainSet.Append then returns cs.Cmap[name], looked up again: a Register that comes
\* between the two lookups comes before this step.
AppendBody(p) ==
    /\ ~crashed
    /\ prod[p].pc = "body"
    /\ LET c == prod[p].c
           grown == Append(chain[c].Chain, prod[p].b)
       IN /\ chain' = [chain EXCEPT ![c].Chain = grown,
                                    ![c].LengthElements = Len(grown),
                                    ![c].containsNewBlocks = TRUE,
                                    ![c].inActiveIterations = IF @ # Zero32 THEN Zero32 ELSE @]
          /\ appended' = [appended EXCEPT ![c] = Append(@, [b |-> prod[p].b, via |-> prod[p].via,
                                                              ret |-> IF prod[p].via = Nil THEN c
                                                                      ELSE Cmap[prod[p].via]])]
          /\ clean' = [clean EXCEPT ![c] = FALSE]
          /\ inits' = [inits EXCEPT ![c] = 0]
          /\ idle' = [idle EXCEPT ![c] = 0]
          /\ mux' = [mux EXCEPT ![c] = FALSE]
    /\ prod' = [prod EXCEPT ![p] = ProdIdle]
    /\ UNCHANGED <<file, setVars, sched, readVars, callVars, crashed, initFile, lastReg, visits>>

\* ---------------------------------------------------------------- ChainSet
\* a name that is already bound keeps its chain
RegisterKeepsFirst(name, chainAddress) ==
    /\ ~crashed
    /\ regCalls < MaxRegisters
    /\ ~csMux
    /\ Cmap' = [Cmap EXCEPT ![name] = IF @ = Nil THEN chainAddress ELSE @]
    /\ lastReg' = [lastReg EXCEPT ![name] = chainAddress]
    /\ regCalls' = regCalls + 1
    /\ UNCHANGED <<chainVars, csMux, flushType, cancelSenders, sched, prod, readVars, crashed,
                   now, runCalls, cancelCalls, runAfterCancel, appended, initFile, clean, visits, inits, idle>>

\* the chain that was bound to the name has its contents overwritten
RegisterOverwritesContents(name, chainAddress) ==
    /\ ~crashed
    /\ regCalls < MaxRegisters
    /\ ~csMux
    /\ Cmap' = [Cmap EXCEPT ![name] = chainAddress]
    /\ lastReg' = [lastReg EXCEPT ![name] = chainAddress]
    /\ regCalls' = regCalls + 1
    /\ chain' = IF Cmap[name] \in {Nil, chainAddress} THEN chain
                ELSE [chain EXCEPT ![Cmap[name]].Chain = <<>>]
    /\ UNCHANGED <<mux, file, csMux, flushType, cancelSenders, sched, prod, readVars, crashed,
                   now, runCalls, cancelCalls, runAfterCancel, appended, initFile, clean, visits, inits, idle>>

Register(name, chainAddress) ==
    /\ ~crashed
    /\ regCalls < MaxRegisters
    /\ ~csMux
    /\ Cmap' = [Cmap EXCEPT ![name] = chainAddress]
    /\ lastReg' = [lastReg EXCEPT ![name] = chainAddress]
    /\ regCalls' = regCalls + 1
    /\ UNCHANGED <<chainVars, csMux, flushType, cancelSenders, sched, prod, readVars, crashed,
                   now, runCalls, cancelCalls, runAfterCancel, appended, initFile, clean, visits, inits, idle>>

Get(name) ==
    /\ ~crashed
    /\ getResult' = IF Cmap[name] = Nil
                    THEN [name |-> name, chain |-> Nil, ok |-> FALSE]
                    ELSE [name |-> name, chain |-> Cmap[name], ok |-> TRUE]
    /\ UNCHANGED <<chainVars, setVars, sched, prod, view, fresh, crashed, callVars, histVars>>

\* Get and ChainSet.Append read Cmap without the set's lock.  A read that comes
\* before or after the write of a Register is a step of Get or ChainSetAppend before
\* or after the step of Register; a read during the write is a data race on the
\* map, which the runtime may end with "fatal error: concurrent map read and map
\* write".
GetOverlapsRegister ==
    /\ ~crashed
    /\ regCalls < MaxRegisters
    /\ ~csMux
    /\ regCalls' = regCalls + 1
    /\ crashed' = TRUE
    /\ UNCHANGED <<chainVars, setVars, sched, prod, readVars,
                   now, runCalls, cancelCalls, runAfterCancel, histVars>>

\* the same for the two lookups of ChainSet.Append: the one of the call and the
\* one of the return
AppendOverlapsRegister(p) ==
    /\ ~crashed
    /\ regCalls < MaxRegisters
    /\ ~csMux
    /\ \/ prod[p].pc = "idle" /\ now <= MaxAppends
       \/ prod[p].pc = "body"
    /\ regCalls' = regCalls + 1
    /\ crashed' = TRUE
    /\ UNCHANGED <<chainVars, setVars, sched, prod, readVars,
                   now, runCalls, cancelCalls, runAfterCancel, histVars>>

\* cs.cancel <- "": the caller blocks on the unbuffered channel until a scheduler receives
Cancel ==
    /\ ~crashed
    /\ cancelCalls < MaxCancels
    /\ cancelCalls' = cancelCalls + 1
    /\ cancelSenders' = cancelSenders + 1
    /\ UNCHANGED <<chainVars, Cmap, csMux, flushType, sched, prod, readVars, crashed,
                   now, runCalls, regCalls, runAfterCancel, histVars>>

\* Run: a scheduler goroutine is started when the flush type is time-based
Run ==
    /\ ~crashed
    /\ runCalls < MaxRuns
    /\ runCalls' = runCalls + 1
    /\ runAfterCancel' = (runAfterCancel \/ cancelCalls > 0)
    /\ sched' = IF flushType = FlushAsTime
                THEN [sched EXCEPT ![runCalls + 1].pc = "select"]
                ELSE sched
    /\ UNCHANGED <<chainVars, setVars, prod, readVars, crashed, now, cancelCalls, regCalls,
                   histVars>>

\* ------------------------------------------------- the scheduler goroutine
Below32(x, n) == x.hi = 0 /\ x.lo < n

\* The sleep ends while a tick has something to do: a registered chain to
\* flush, or one whose inactivity count is still below MaxIdle.
TickDue ==
    \E n \in Names :
        /\ Cmap[n] # Nil
        /\ \/ chain[Cmap[n]].containsNewBlocks
           \/ Below32(chain[Cmap[n]].inActiveIterations, MaxIdle)

\* the signal is taken from the channel but the loop goes on
SchedSelectIgnoresCancel(i) ==
    /\ ~crashed
    /\ sched[i].pc = "select"
    /\ IF cancelSenders > 0
       THEN /\ cancelSenders' = cancelSenders - 1
            /\ sched' = [sched EXCEPT ![i].pc = "lock"]
       ELSE /\ TickDue
            /\ sched' = [sched EXCEPT ![i].pc = "lock"]
            /\ UNCHANGED cancelSenders
    /\ UNCHANGED <<chainVars, Cmap, csMux, flushType, prod, readVars, crashed, callVars, histVars>>

\* select { case <-cs.cancel: return; default: }
SchedSelect(i) ==
    /\ ~crashed
    /\ sched[i].pc = "select"
    /\ IF cancelSenders > 0
       THEN /\ cancelSenders' = cancelSenders - 1
            /\ sched' = [sched EXCEPT ![i].pc = "done"]
       ELSE /\ TickDue
            /\ sched' = [sched EXCEPT ![i].pc = "lock"]
            /\ UNCHANGED cancelSenders
    /\ UNCHANGED <<chainVars, Cmap, csMux, flushType, prod, readVars, crashed, callVars, histVars>>

\* no wait for the set's lock
SchedLockNoWait(i) ==
    /\ ~crashed
    /\ sched[i].pc = "lock"
    /\ csMux' = TRUE
    /\ sched' = [sched EXCEPT ![i].pc = "range", ![i].todo = {n \in Names : Cmap[n] # Nil}]
    /\ UNCHANGED <<chainVars, Cmap, flushType, cancelSenders, prod, readVars, crashed,
                   callVars, histVars>>

\* cs.mux.Lock(); the range statement takes the names the map holds
SchedLock(i) ==
    /\ ~crashed
    /\ sched[i].pc = "lock"
    /\ ~csMux
    /\ csMux' = TRUE
    /\ sched' = [sched EXCEPT ![i].pc = "range", ![i].todo = {n \in Names : Cmap[n] # Nil}]
    /\ UNCHANGED <<chainVars, Cmap, flushType, cancelSenders, prod, readVars, crashed,
                   callVars, histVars>>

\* for _, chain := range cs.Cmap { if chain.containsNewBlocks {...} else {...} }
\* the flag is read without the chain's lock
SchedRange(i) ==
    /\ ~crashed
    /\ sched[i].pc = "range"
    /\ \E n \in sched[i].todo :
          /\ sched' = [sched EXCEPT ![i].todo = @ \ {n},
                                    ![i].cur = Cmap[n],
                                    ![i].pc = IF chain[Cmap[n]].containsNewBlocks
                                              THEN "commit_lock" ELSE "inc_read"]
          /\ visits' = [visits EXCEPT ![i][Cmap[n]] = @ + 1]
          /\ idle' = IF chain[Cmap[n]].containsNewBlocks THEN idle
                     ELSE [idle EXCEPT ![Cmap[n]] = @ + 1]
    /\ UNCHANGED <<chainVars, setVars, prod, readVars, crashed, callVars,
                   appended, initFile, clean, lastReg, inits>>

\* chain.inActiveIterations++ : the read
SchedIncRead(i) ==
    /\ ~crashed
    /\ sched[i].pc = "inc_read"
    /\ sched' = [sched EXCEPT ![i].tmp = chain[sched[i].cur].inActiveIterations,
                              ![i].pc = "inc_write"]
    /\ UNCHANGED <<chainVars, setVars, prod, readVars, crashed, callVars, histVars>>

\* chain.inActiveIterations++ : the write (uint32)
SchedIncWrite(i) ==
    /\ ~crashed
    /\ sched[i].pc = "inc_write"
    /\ chain' = [chain EXCEPT ![sched[i].cur].inActiveIterations = Inc32(sched[i].tmp)]
    /\ sched' = [sched EXCEPT ![i].pc = "range", ![i].cur = Nil, ![i].tmp = Zero32]
    /\ UNCHANGED <<mux, file, setVars, prod, readVars, crashed, callVars, histVars>>

\* commit: c.mux.Lock()
CommitLock(i) ==
    /\ ~crashed
    /\ sched[i].pc = "commit_lock"
    /\ ~mux[sched[i].cur]
    /\ mux' = [mux EXCEPT ![sched[i].cur] = TRUE]
    /\ sched' = [sched EXCEPT ![i].pc = "commit_write"]
    /\ UNCHANGED <<chain, file, setVars, prod, readVars, crashed, callVars, histVars>>

\* every chain is written to the first chain's file
CommitWriteOneFile(i) ==
    /\ ~crashed
    /\ sched[i].pc = "commit_write"
    /\ LET c == sched[i].cur
           f == file[PathOf("c1")]
       IN IF ~f.exists
          THEN /\ crashed' = TRUE
               /\ UNCHANGED <<file, sched, fresh>>
          ELSE LET existingBlocks == loadFromStorage(f.data)
                   mergedBlocks == mergeBlocksSlice(existingBlocks, chain[c].Chain)
               IN /\ file' = [file EXCEPT ![PathOf("c1")] = FileOf(parseToJSON(mergedBlocks))]
                  /\ fresh' = (fresh /\ view.Path # PathOf("c1"))
                  /\ sched' = [sched EXCEPT ![i].pc = "commit_reset"]
                  /\ UNCHANGED crashed
    /\ UNCHANGED <<chain, mux, setVars, prod, view, getResult, callVars, histVars>>

\* commit: parse(c.Path), panic on error; loadFromStorage; mergeBlocksSlice; parseToJSON;
\* saveToHDD
CommitWrite(i) ==
    /\ ~crashed
    /\ sched[i].pc = "commit_write"
    /\ LET c == sched[i].cur
           f == file[chain[c].Path]
       IN IF ~f.exists
          THEN /\ crashed' = TRUE
               /\ UNCHANGED <<file, sched, fresh>>
          ELSE LET existingBlocks == loadFromStorage(f.data)
                   mergedBlocks == mergeBlocksSlice(existingBlocks, chain[c].Chain)
               IN /\ file' = [file EXCEPT ![chain[c].Path] = FileOf(parseToJSON(mergedBlocks))]
                  /\ fresh' = (fresh /\ view.Path # chain[c].Path)
                  /\ sched' = [sched EXCEPT ![i].pc = "commit_reset"]
                  /\ UNCHANGED crashed
    /\ UNCHANGED <<chain, mux, setVars, prod, view, getResult, callVars, histVars>>

\* the in-memory sequence is not emptied
CommitResetKeepsChain(i) ==
    /\ ~crashed
    /\ sched[i].pc = "commit_reset"
    /\ chain' = [chain EXCEPT ![sched[i].cur].containsNewBlocks = FALSE]
    /\ mux' = [mux EXCEPT ![sched[i].cur] = FALSE]
    /\ clean' = [clean EXCEPT ![sched[i].cur] = TRUE]
    /\ sched' = [sched EXCEPT ![i].pc = "range", ![i].cur = Nil]
    /\ UNCHANGED <<file, setVars, prod, readVars, crashed, callVars, appended, initFile, lastReg, visits, inits, idle>>

\* the dirty flag is not cleared
CommitResetKeepsFlag(i) ==
    /\ ~crashed
    /\ sched[i].pc = "commit_reset"
    /\ chain' = [chain EXCEPT ![sched[i].cur].Chain = <<>>]
    /\ mux' = [mux EXCEPT ![sched[i].cur] = FALSE]
    /\ clean' = [clean EXCEPT ![sched[i].cur] = TRUE]
    /\ sched' = [sched EXCEPT ![i].pc = "range", ![i].cur = Nil]
    /\ UNCHANGED <<file, setVars, prod, readVars, crashed, callVars, appended, initFile, lastReg, visits, inits, idle>>

\* commit: c.Chain = []Block{}; c.containsNewBlocks = false; c.mux.Unlock()
CommitReset(i) ==
    /\ ~crashed
    /\ sched[i].pc = "commit_reset"
    /\ chain' = [chain EXCEPT ![sched[i].cur].Chain = <<>>,
                              ![sched[i].cur].containsNewBlocks = FALSE]
    /\ mux' = [mux EXCEPT ![sched[i].cur] = FALSE]
    /\ clean' = [clean EXCEPT ![sched[i].cur] = TRUE]
    /\ sched' = [sched EXCEPT ![i].pc = "range", ![i].cur = Nil]
    /\ UNCHANGED <<file, setVars, prod, readVars, crashed, callVars, appended, initFile, lastReg, visits, inits, idle>>

\* cs.mux.Unlock(); runtime.GC(); time.Sleep(cs.FlushDuration)
SchedUnlock(i) ==
    /\ ~crashed
    /\ sched[i].pc = "range"
    /\ sched[i].todo = {}
    /\ csMux' = FALSE
    /\ sched' = [sched EXCEPT ![i].pc = "select"]
    /\ visits' = [visits EXCEPT ![i] = [c \in ChainIds |-> 0]]
    /\ UNCHANGED <<chainVars, Cmap, flushType, cancelSenders, prod, readVars, crashed,
                   callVars, appended, initFile, clean, lastReg, inits, idle>>

\* ----------------------------------------------------------- ChainReadOnly
\* the loaded blocks are added to the view's instead of replacing them
RefreshKeepsView ==
    /\ ~crashed
    /\ IF ~file[view.Path].exists
       THEN /\ crashed' = TRUE
            /\ UNCHANGED <<view, fresh>>
       ELSE /\ view' = [view EXCEPT !.Chain = @ \o loadFromStorage(file[view.Path].data)]
            /\ fresh' = TRUE
            /\ UNCHANGED crashed
    /\ UNCHANGED <<chainVars, setVars, sched, prod, getResult, callVars, histVars>>

\* Refresh: on a read error parse returns nil, the error is logged, and
\* loadFromStorage dereferences the nil
Refresh ==
    /\ ~crashed
    /\ IF ~file[view.Path].exists
       THEN /\ crashed' = TRUE
            /\ UNCHANGED <<view, fresh>>
       ELSE /\ view' = [view EXCEPT !.Chain = loadFromStorage(file[view.Path].data)]
            /\ fresh' = TRUE
            /\ UNCHANGED crashed
    /\ UNCHANGED <<chainVars, setVars, sched, prod, getResult, callVars, histVars>>

BlockStream == view.Chain

\* ReadOnly(path): a reader makes a new view of a path
NewReadOnly(path) ==
    /\ ~crashed
    /\ view # ReadOnly(path)
    /\ view' = ReadOnly(path)
    /\ fresh' = FALSE
    /\ UNCHANGED <<chainVars, setVars, sched, prod, getResult, crashed, callVars, histVars>>

\* ---------------------------------------------------------- specifications
Scheduler(i) ==
    \/ SchedSelect(i)
    \/ SchedLock(i)
    \/ SchedRange(i)
    \/ SchedIncRead(i)
    \/ SchedIncWrite(i)
    \/ CommitLock(i)
    \/ CommitWrite(i)
    \/ CommitReset(i)
    \/ SchedUnlock(i)

\* The flush path: producers appending through the registry while the scheduler runs.
Next ==
    \/ \E p \in Producers, n \in Names : ChainSetAppend(p, n, BlockType, ValueOf(p))
    \/ \E p \in Producers : AppendLock(p)
    \/ \E p \in Producers : AppendBody(p)
    \/ \E i \in SchedIds : Scheduler(i)

Spec == Init /\ [][Next]_vars

\* Starting and stopping schedulers while one producer appends.
NextCancel ==
    \/ ChainSetAppend("p1", "a", BlockType, ValueOf("p1"))
    \/ AppendLock("p1")
    \/ AppendBody("p1")
    \/ \E i \in SchedIds : Scheduler(i)
    \/ Run
    \/ Cancel

SpecCancel == InitCancel /\ [][NextCancel]_vars

\* The same where a scheduler goroutine that can take a step takes it, and an
\* Append that holds the chain's lock returns.
SpecCancelFair ==
    /\ InitCancel
    /\ [][NextCancel]_vars
    /\ \A i \in SchedIds : WF_vars(Scheduler(i))
    /\ WF_vars(AppendBody("p1"))

\* The registry changing under a producer and the scheduler.
NextRegistry ==
    \/ \E n \in Names, c \in ChainIds : Register(n, c)
    \/ \E n \in Names : ChainSetAppend("p1", n, BlockType, ValueOf("p1"))
    \/ AppendLock("p1")
    \/ AppendBody("p1")
    \/ AppendOverlapsRegister("p1")
    \/ \E i \in SchedIds : Scheduler(i)

SpecRegistry == InitRegistry /\ [][NextRegistry]_vars

\* Lookups in a registry that changes while the scheduler runs.
NextLookup ==
    \/ \E n \in Names, c \in ChainIds : Register(n, c)
    \/ \E n \in Names : Get(n)
    \/ GetOverlapsRegister
    \/ \E i \in SchedIds : Scheduler(i)

SpecLookup == InitRegistry /\ [][NextLookup]_vars

\* A reader refreshing its view of the first chain's file while the flush path runs.
InitRead ==
    \E prior \in Priors : Setup(prior, FlushAsTime, [NoNames EXCEPT !["a"] = "c1"], 1)

NextRead ==
    \/ \E p \in Producers : ChainSetAppend(p, "a", BlockType, ValueOf(p))
    \/ \E p \in Producers : AppendLock(p)
    \/ \E p \in Producers : AppendBody(p)
    \/ \E i \in SchedIds : Scheduler(i)
    \/ Refresh

SpecRead == InitRead /\ [][NextRead]_vars

\* A reader that makes views of any path, with a file behind it or not.
NextView ==
    \/ ChainSetAppend("p1", "a", BlockType, ValueOf("p1"))
    \/ AppendLock("p1")
    \/ AppendBody("p1")
    \/ \E i \in SchedIds : Scheduler(i)
    \/ \E path \in Paths : NewReadOnly(path)
    \/ Refresh

SpecView == InitRead /\ [][NextView]_vars

\* The scheduler stopped and the registry rebound while one producer appends.
\* A scheduler goroutine that can take a step takes it, and an Append that holds
\* the chain's lock returns.
NextLive ==
    \/ ChainSetAppend("p1", "a", BlockType, ValueOf("p1"))
    \/ AppendLock("p1")
    \/ AppendBody("p1")
    \/ \E i \in SchedIds : Scheduler(i)
    \/ \E c \in ChainIds : Register("a", c)
    \/ AppendOverlapsRegister("p1")
    \/ Cancel

SpecLive ==
    /\ InitRead
    /\ [][NextLive]_vars
    /\ \A i \in SchedIds : WF_vars(Scheduler(i))
    /\ WF_vars(AppendBody("p1"))


\* A name rebound to another chain while one producer appends through the name and
\* another appends to the first chain directly.
NextRebind ==
    \/ \E c \in ChainIds : Register("a", c)
    \/ ChainSetAppend("p1", "a", BlockType, ValueOf("p1"))
    \/ ChainAppend("p2", "c1", BlockType, ValueOf("p2"))
    \/ \E p \in Producers : AppendLock(p)
    \/ \E p \in Producers : AppendBody(p)
    \/ AppendOverlapsRegister("p1")
    \/ \E i \in SchedIds : Scheduler(i)

SpecRebind == InitRead /\ [][NextRebind]_vars


\* Two scheduler goroutines (Run called twice) over a registry that changes while
\* a producer appends.
InitTick ==
    \E prior \in {f \in Priors : f["c1"].data # <<>>} :
        Setup(prior, FlushAsTime, [NoNames EXCEPT !["a"] = "c1"], 2)

NextTick ==
    \/ \E c \in ChainIds : Register("b", c)
    \/ ChainSetAppend("p1", "a", BlockType, ValueOf("p1"))
    \/ AppendLock("p1")
    \/ AppendBody("p1")
    \/ AppendOverlapsRegister("p1")
    \/ \E i \in SchedIds : Scheduler(i)

SpecTick == InitTick /\ [][NextTick]_vars

\* Init called on chains at any time, before and after Appends and commits.
NextInit ==
    \/ \E c \in ChainIds : ChainInitCall(c)
    \/ ChainSetAppend("p1", "a", BlockType, ValueOf("p1"))
    \/ AppendLock("p1")
    \/ AppendBody("p1")
    \/ \E i \in SchedIds : Scheduler(i)

SpecInit == InitNew /\ [][NextInit]_vars

\* ------------------------------------------------------------------ claims
Blocks(hist) == [k \in DOMAIN hist |-> hist[k].b]
Registered(c) == \E n \in Names : Cmap[n] = c
CommitInProgress(c) ==
    \E i \in SchedIds : sched[i].cur = c /\ sched[i].pc \in {"commit_write", "commit_reset"}
AppendInProgress(c) == \E p \in Producers : prod[p].pc = "body" /\ prod[p].c = c
FileData(c) == file[chain[c].Path].data
InitData(c) == initFile[chain[c].Path].data

\* C1: for a registered chain, under every interleaving of Appends and scheduler
\* ticks, whenever no commit of the chain is in progress the file's blocks followed
\* by the in-memory blocks are the initial file's blocks followed by every block
\* appended so far, each once and in append order (blocks taken in their persisted
\* form).
C1_NoLossNoDuplicate ==
    \A c \in ChainIds :
        (Registered(c) /\ ~CommitInProgress(c)) =>
            FileData(c) \o parseToJSON(chain[c].Chain)
                = InitData(c) \o parseToJSON(Blocks(appended[c]))

\* one appended block already in the file behind an older one, the next still in memory
C1_Witness ==
    \E c \in ChainIds :
        /\ Registered(c) /\ ~CommitInProgress(c)
        /\ Len(InitData(c)) = 1 /\ Len(FileData(c)) = 2 /\ Len(chain[c].Chain) = 1

\* C2: a commit leaves the file holding its prior blocks followed by the blocks
\* appended since the previous commit, in append order: the count is the prior
\* count plus the appended count.
C2_CommitAppendsToFile ==
    [][\A c \in ChainIds :
          file'[chain[c].Path] # file[chain[c].Path] =>
              LET mem == chain[c].Chain
                  all == Blocks(appended[c])
              IN /\ Len(file'[chain[c].Path].data) = Len(FileData(c)) + Len(mem)
                 /\ file'[chain[c].Path].data = FileData(c) \o parseToJSON(mem)
                 /\ mem = SubSeq(all, Len(all) - Len(mem) + 1, Len(all))]_vars

\* a commit has just written two appended blocks behind the block of an earlier run
C2_Witness ==
    \E i \in SchedIds :
        /\ sched[i].pc = "commit_reset"
        /\ Len(chain[sched[i].cur].Chain) = 2
        /\ Len(InitData(sched[i].cur)) = 1
        /\ Len(FileData(sched[i].cur)) = 3

\* C3 as stated: on a chain whose file Init left empty, once every appended block
\* has been committed and the view refreshed, BlockStream is exactly the appended
\* blocks in append order.
RoundTripDone(c) ==
    /\ view.Path = chain[c].Path
    /\ InitData(c) = <<>>
    /\ fresh
    /\ chain[c].Chain = <<>>
    /\ ~CommitInProgress(c)

C3_RoundTripExact ==
    RoundTripDone("c1") => BlockStream = Blocks(appended["c1"])

\* a string as a reader of the file gets it back: bytes that are not UTF-8 replaced
AsText(str) == [k \in DOMAIN str |-> IF str[k] = "xFF" THEN "uFFFD" ELSE str[k]]
AsRead(b) == [Timestamp |-> AsText(b.Timestamp), NormalizedTime |-> b.NormalizedTime,
              Datapoint |-> AsText(b.Datapoint), Type |-> AsText(b.Type)]

\* C3 (amended): in that state BlockStream is the appended blocks in append order
\* and no others, each with its strings as valid UTF-8 text: a block whose strings
\* are valid UTF-8 comes back unchanged, bytes that are not come back as U+FFFD.
C3_RoundTripAsText ==
    RoundTripDone("c1") =>
        /\ Len(BlockStream) = Len(appended["c1"])
        /\ \A k \in DOMAIN BlockStream :
              /\ BlockStream[k] = AsRead(appended["c1"][k].b)
              /\ (\A u \in InvalidUnits :
                     \A k2 \in DOMAIN appended["c1"][k].b.Datapoint :
                        appended["c1"][k].b.Datapoint[k2] # u)
                   => BlockStream[k] = appended["c1"][k].b

\* both producers' blocks have been committed and read back
C3_Witness ==
    /\ RoundTripDone("c1")
    /\ Len(appended["c1"]) = 2
    /\ \E k \in 1..2 : BlockStream[k] # appended["c1"][k].b
    /\ \E k \in 1..2 : BlockStream[k] = appended["c1"][k].b

\* C4: once a commit has completed and until the next Append writes to the chain,
\* the in-memory sequence is empty and the dirty flag is false, and a scheduler that
\* visits the chain neither commits it nor rewrites its file.
C4_CleanAfterCommit ==
    /\ [](\A c \in ChainIds :
            clean[c] => /\ chain[c].Chain = <<>>
                        /\ ~chain[c].containsNewBlocks
                        /\ ~CommitInProgress(c))
    /\ [][\A c \in ChainIds :
            clean[c] =>
                /\ file'[chain[c].Path] = file[chain[c].Path]
                /\ \A i \in SchedIds :
                      (sched'[i].cur = c /\ sched[i].cur # c) => sched'[i].pc = "inc_read"]_vars

\* a later tick has visited the committed chain and is skipping it
C4_Witness ==
    /\ Cmap["b"] = Nil
    /\ clean["c1"]
    /\ \E i \in SchedIds : sched[i].cur = "c1" /\ sched[i].pc = "inc_write"

\* C5 as stated: once a Cancel has been delivered, and Run is not called again, no
\* scheduler starts another tick and no file is written any more.
SignalDelivered == cancelCalls > 0 /\ cancelSenders = 0 /\ ~runAfterCancel

C5_NoCommitAfterCancel ==
    [][SignalDelivered =>
          /\ \A i \in SchedIds : ~(sched[i].pc = "select" /\ sched'[i].pc = "lock")
          /\ (runAfterCancel' \/ file' = file)]_vars

Stopped == {i \in SchedIds : sched[i].pc = "done"}
Alive == {i \in SchedIds : sched[i].pc \notin {"off", "done"}}

\* C5 (amended): each Cancel stops exactly one scheduler goroutine, the one that
\* receives the signal: it receives it only at the start of a loop iteration, a
\* scheduler at the start of an iteration with a Cancel waiting starts no tick, a
\* stopped scheduler never acts again, and once no scheduler is left running no
\* file is written, whatever is dirty or appended later.  Schedulers started by
\* other calls of Run keep committing.
C5_CancelStopsOneScheduler ==
    /\ [](Cardinality(Stopped) = cancelCalls - cancelSenders)
    /\ [][/\ \A i \in SchedIds :
               /\ (sched[i].pc = "done" => sched'[i] = sched[i])
               /\ (sched[i].pc # "done" /\ sched'[i].pc = "done") => sched[i].pc = "select"
               /\ (sched[i].pc = "select" /\ cancelSenders > 0) => sched'[i].pc # "lock"
          /\ (Alive = {} /\ Alive' = {}) => UNCHANGED <<file, csMux, sched>>]_vars

\* the only scheduler has stopped and an Append made afterwards stays in memory
C5_Witness ==
    /\ runCalls = 1
    /\ cancelCalls = 1
    /\ sched[1].pc = "done"
    /\ chain["c1"].Chain # <<>>
    /\ chain["c1"].containsNewBlocks
    /\ Len(FileData("c1")) > Len(InitData("c1"))

\* the elements of a sequence
Range(seq) == {seq[k] : k \in DOMAIN seq}

\* C6 as stated: for two names a # b registered in the set, a block appended
\* through a is never in the in-memory sequence or in the file of the chain
\* registered under b.
C6_NamesIsolated ==
    \A a, b \in Names :
        (a # b /\ Cmap[a] # Nil /\ Cmap[b] # Nil) =>
            \A c \in ChainIds : \A k \in DOMAIN appended[c] :
                appended[c][k].via = a =>
                    /\ appended[c][k].b \notin Range(chain[Cmap[b]].Chain)
                    /\ EncodeBlock(appended[c][k].b) \notin Range(FileData(Cmap[b]))

\* C6 (amended): two distinct chains, each with its own backing path, never observe
\* each other's blocks, under whatever names they are or were registered: a block
\* appended to one chain is never in the in-memory sequence or in the file of the
\* other, and what a chain holds in memory or in its file beyond the file's initial
\* content are blocks appended to that chain.  Two names registered to the same
\* chain share its blocks.
C6_ChainsIsolated ==
    \A c, d \in ChainIds :
        (c # d /\ chain[c].Path # chain[d].Path) =>
            /\ \A k \in DOMAIN appended[c] :
                  /\ appended[c][k].b \notin Range(chain[d].Chain)
                  /\ EncodeBlock(appended[c][k].b) \notin Range(FileData(d))
            /\ Range(chain[d].Chain) \subseteq Range(Blocks(appended[d]))
            /\ Range(FileData(d)) \subseteq
                   Range(InitData(d)) \cup {EncodeBlock(x) : x \in Range(Blocks(appended[d]))}

\* each of two chains registered under its own name has its own appended block in its file
C6_Witness ==
    /\ Cmap["a"] = "c1" /\ Cmap["b"] = "c2"
    /\ \A c \in ChainIds :
          /\ Len(appended[c]) = 1
          /\ EncodeBlock(appended[c][1].b) \in Range(FileData(c))
    /\ appended["c1"][1].via = "a"
    /\ appended["c2"][1].via = "b"

\* the block appended at clock reading t, in memory and in the file of chain c
InMemory(c, t) == \E k \in DOMAIN chain[c].Chain : chain[c].Chain[k].NormalizedTime = t
InFile(c, t) == \E k \in DOMAIN FileData(c) : FileData(c)[k]["normalized-time"] = t

\* C7: while a scheduler goroutine is running (not cancelled, the process not dead),
\* every block appended to a chain that stays registered eventually is in the
\* chain's file; and a block comes to the file only by a commit of its chain, which
\* holds it in memory at that time.
C7_EventuallyPersisted ==
    /\ \A c \in ChainIds : \A t \in 1..MaxAppends :
          (InMemory(c, t) /\ Registered(c) /\ Alive # {})
              ~> (InFile(c, t) \/ ~Registered(c) \/ Alive = {} \/ crashed)
    /\ [][\A c \in ChainIds : \A t \in 1..MaxAppends :
             (InFile(c, t)' /\ ~InFile(c, t)) =>
                 /\ InMemory(c, t)
                 /\ \E i \in SchedIds :
                       /\ sched[i].cur = c
                       /\ sched[i].pc = "commit_write"
                       /\ sched'[i].pc = "commit_reset"]_vars

\* a block appended after the first commit has reached the file of its chain,
\* which is registered with a scheduler still running
C7_Witness ==
    \E c \in ChainIds :
        /\ Registered(c) /\ Alive # {}
        /\ clean[c]
        /\ Len(appended[c]) = 2
        /\ InFile(c, appended[c][2].b.NormalizedTime)
        /\ ~InMemory(c, appended[c][2].b.NormalizedTime)

\* C8: the critical sections of Append and commit on one chain never overlap: at
\* most one thread is inside, the mutex is held exactly then, and an Append that
\* arrives during a commit cannot take the lock before the commit has reset the
\* in-memory sequence and released it.
InCritical(c) ==
    {p \in Producers : prod[p].pc = "body" /\ prod[p].c = c}
        \cup {i \in SchedIds : sched[i].cur = c
                               /\ sched[i].pc \in {"commit_write", "commit_reset"}}

C8_MutualExclusion ==
    \A c \in ChainIds :
        /\ Cardinality(InCritical(c)) <= 1
        /\ mux[c] <=> InCritical(c) # {}
        /\ \A p \in Producers :
              (prod[p].pc = "lock" /\ prod[p].c = c /\ (CommitInProgress(c) \/ AppendInProgress(c)))
                  => ~ENABLED AppendLock(p)

\* an Append waits while the commit of its chain has written the file but not yet reset
C8_Witness ==
    \E p \in Producers, i \in SchedIds :
        /\ prod[p].pc = "lock"
        /\ sched[i].pc = "commit_reset"
        /\ sched[i].cur = prod[p].c
        /\ chain[prod[p].c].Chain # <<>>

\* C9: outside the critical sections, containsNewBlocks is true exactly when the
\* in-memory sequence is non-empty.
C9_DirtyIffNonEmpty ==
    \A c \in ChainIds :
        ~mux[c] => (chain[c].containsNewBlocks <=> chain[c].Chain # <<>>)

\* C11: a Refresh of a view whose path cannot be read returns normally and leaves
\* the blocks the view had loaded before.
C11_RefreshFailsByLogging ==
    [][(Refresh /\ ~file[view.Path].exists) => (~crashed' /\ view' = view)]_vars

\* C12: ChainSet.Append with a name that is not registered ends in a fatal error
\* and changes nothing (Cmap, the chains, their locks and files); with a registered
\* name the block goes to the chain of that name and the call returns that chain.
C12_AppendByName ==
    /\ [](\A c \in ChainIds : \A k \in DOMAIN appended[c] : appended[c][k].ret = c)
    /\ [][/\ (~crashed /\ crashed') =>
                /\ \E n \in Names : Cmap[n] = Nil
                /\ UNCHANGED <<Cmap, chain, mux, file, appended>>
          /\ \A p \in Producers :
                (prod[p].pc = "idle" /\ prod'[p].pc = "lock") =>
                    /\ prod'[p].c # Nil
                    /\ prod'[p].c = Cmap[prod'[p].via]
          /\ \A c \in ChainIds :
                appended'[c] # appended[c] =>
                    \E p \in Producers :
                        /\ prod[p].pc = "body" /\ prod[p].c = c
                        /\ chain'[c].Chain = Append(chain[c].Chain, prod[p].b)]_vars

\* C13: every access to Cmap is made under the set's lock: no lookup of Get or of
\* ChainSet.Append and no Register takes effect while a flush tick holds the lock,
\* and no lookup overlaps the write of a Register.
C13_SetLockGuardsCmap ==
    [][/\ (getResult' # getResult) => ~csMux
       /\ (Cmap' # Cmap) => ~csMux
       /\ \A p \in Producers : (prod[p].pc = "idle" /\ prod'[p].pc = "lock") => ~csMux
       /\ ~GetOverlapsRegister
       /\ \A p \in Producers : ~AppendOverlapsRegister(p)]_vars

\* C14: every write to Chain, LengthElements, containsNewBlocks or
\* inActiveIterations of a chain is made by a thread that holds the chain's mutex:
\* an Append in its body or a commit after its lock.
C14_ChainLockGuardsFields ==
    [][\A c \in ChainIds :
          chain'[c] # chain[c] =>
              /\ mux[c]
              /\ \/ \E p \in Producers :
                       prod[p].pc = "body" /\ prod[p].c = c /\ prod'[p].pc # "body"
                 \/ \E i \in SchedIds :
                       /\ sched[i].cur = c
                       /\ sched[i].pc \in {"commit_write", "commit_reset"}
                       /\ sched'[i] # sched[i]]_vars

\* C15: outside the critical sections of Append and commit, LengthElements is the
\* number of blocks in Chain.
C15_LengthElementsIsLength ==
    \A c \in ChainIds :
        ~mux[c] => chain[c].LengthElements = Len(chain[c].Chain)

\* the schedulers inside a flush tick, and those inside a chain commit
InTick == {i \in SchedIds : sched[i].pc \notin {"off", "select", "lock", "done"}}
InCommit == {i \in SchedIds : sched[i].pc \in {"commit_lock", "commit_write", "commit_reset"}}
NamesOf(c) == {n \in Names : Cmap[n] = c}

\* what C16 says of ticks however chains are visited: a tick holds the set's lock
\* from start to end, so at most one tick and one chain commit are in progress,
\* also with two schedulers; no Register takes effect during a tick; every visit
\* commits the chain if it is dirty and increments its inactivity counter if not.
TicksSerialized ==
    /\ [](/\ Cardinality(InTick) <= 1
          /\ Cardinality(InCommit) <= 1
          /\ csMux <=> InTick # {})
    /\ [][/\ Cmap' # Cmap => (InTick = {} /\ InTick' = {})
          /\ \A i \in SchedIds : \A c \in ChainIds :
                visits'[i][c] > visits[i][c] =>
                    /\ visits'[i][c] = visits[i][c] + 1
                    /\ sched'[i].cur = c
                    /\ sched'[i].pc = IF chain[c].containsNewBlocks
                                      THEN "commit_lock" ELSE "inc_read"]_vars

\* C16 as stated: ... and when a tick ends, every chain that was in Cmap at its
\* start has been visited exactly once.
C16_EveryChainVisitedOnce ==
    /\ TicksSerialized
    /\ [][\A i \in SchedIds :
             (sched[i].pc = "range" /\ sched'[i].pc = "select") =>
                 \A c \in ChainIds : visits[i][c] = IF Registered(c) THEN 1 ELSE 0]_vars

\* C16 (amended): ... and when a tick ends, every name that was in Cmap at its
\* start has had its chain visited exactly once: a chain registered under k names
\* has been visited k times, and during a tick never more often.
C16_EveryNameVisitedOnce ==
    /\ TicksSerialized
    /\ [](\A i \in SchedIds : \A c \in ChainIds : visits[i][c] <= Cardinality(NamesOf(c)))
    /\ [][\A i \in SchedIds :
             (sched[i].pc = "range" /\ sched'[i].pc = "select") =>
                 \A c \in ChainIds : visits[i][c] = Cardinality(NamesOf(c))]_vars

\* the second scheduler ends a tick that visited two chains, after a Register
\* had to wait for the first scheduler's tick, which committed an appended block
C16_Witness ==
    /\ regCalls > 0
    /\ sched[2].pc = "range" /\ sched[2].todo = {}
    /\ sched[1].pc = "lock"
    /\ visits[2] = [c \in ChainIds |-> 1]
    /\ Len(FileData("c1")) > Len(InitData("c1"))

Nat32(n) == [hi |-> (n \div HalfMod) % HalfMod, lo |-> n % HalfMod]

\* C18: whenever no increment of the chain's counter is under way, inActiveIterations
\* is the number of visits by a tick that found the chain not dirty since the latest
\* Append to it, modulo 2^32: 0 after an Append, one more per idle visit, unchanged
\* by a commit.
C18_CountsIdleTicks ==
    \A c \in ChainIds :
        (\A i \in SchedIds : ~(sched[i].cur = c /\ sched[i].pc \in {"inc_read", "inc_write"}))
            => chain[c].inActiveIterations = Nat32(idle[c])

\* the Cancel calls that have returned
Returned == cancelCalls - cancelSenders

\* what C19 says of the handshake: a Cancel returns only by a scheduler goroutine
\* receiving its signal at the select, which stops that goroutine and no other, so
\* as many schedulers have stopped as Cancel calls have returned; and while a
\* scheduler is running a waiting Cancel eventually returns.
CancelHandshake ==
    /\ [](Returned = Cardinality(Stopped) /\ cancelSenders >= 0)
    /\ [][Returned' # Returned =>
             /\ Returned' = Returned + 1
             /\ \E i \in SchedIds :
                   /\ sched[i].pc = "select" /\ sched'[i].pc = "done"
                   /\ \A j \in SchedIds \ {i} : sched'[j] = sched[j]]_vars
    /\ \A r \in 0..MaxCancels :
          (Returned = r /\ cancelSenders > 0 /\ Alive # {}) ~> (Returned > r)

\* C19 as stated: ... and a Cancel issued when no scheduler is running blocks
\* forever: when the one Cancel came before the one Run, it is still waiting.
C19_CancelBlocksForever ==
    /\ CancelHandshake
    /\ [](Alive = {} => ~ENABLED (\E i \in SchedIds : SchedSelect(i)))
    /\ []((cancelCalls = 1 /\ runCalls = 1 /\ runAfterCancel) => cancelSenders = 1)

\* C19 (amended): ... and a Cancel issued when no scheduler is running blocks for
\* as long as none is running: forever if no scheduler is started, until the
\* scheduler of a later Run on a time-based set receives the signal otherwise.
C19_CancelBlocksWhileNoScheduler ==
    /\ CancelHandshake
    /\ [](Alive = {} => ~ENABLED (\E i \in SchedIds : SchedSelect(i)))
    /\ [][(Alive = {} /\ cancelSenders > 0) => cancelSenders' >= cancelSenders]_vars
    /\ []((flushType = FlushAsSpace \/ runCalls = 0) => Returned = 0)

\* a Cancel issued before Run was ever called has returned: the scheduler of the
\* later Run received it and stopped
C19_Witness ==
    /\ cancelCalls = 1 /\ runCalls = 1 /\ runAfterCancel
    /\ Returned = 1
    /\ sched[1].pc = "done"

\* C20: Register changes only the mapping.  While a chain is registered under no
\* name (its name was rebound to another chain), no scheduler visits it, its file
\* is not written, and its state changes only by an Append made on it directly or
\* begun before the rebinding, which adds the block to its in-memory sequence: the
\* blocks it holds stay in memory and never come to its file.  A ChainSet.Append
\* through a name goes to the chain registered last under that name.
C20_ReplacedChainLeftAlone ==
    /\ [][(Cmap' # Cmap) => UNCHANGED <<chain, mux, file>>]_vars
    /\ [](\A c \in ChainIds : ~Registered(c) => \A i \in SchedIds : sched[i].cur # c)
    /\ [][\A c \in ChainIds :
             (~Registered(c) /\ ~Registered(c)') =>
                 /\ file'[chain[c].Path] = file[chain[c].Path]
                 /\ chain'[c] # chain[c] =>
                       /\ AppendInProgress(c)
                       /\ Len(chain'[c].Chain) = Len(chain[c].Chain) + 1
                       /\ SubSeq(chain'[c].Chain, 1, Len(chain[c].Chain)) = chain[c].Chain]_vars
    /\ [][\A p \in Producers :
             (prod[p].pc = "idle" /\ prod'[p].pc = "lock" /\ prod'[p].via # Nil) =>
                 prod'[p].c = lastReg[prod'[p].via]]_vars

\* the name was rebound from the first chain to the second while the first held an
\* uncommitted block; a later ChainSet.Append through the name went to the second
\* chain and a later tick committed it, and the first chain's block is still in
\* memory only
C20_Witness ==
    /\ Cmap["a"] = "c2" /\ ~Registered("c1")
    /\ InMemory("c1", 1) /\ ~InFile("c1", 1)
    /\ InFile("c2", 2)
    /\ \E k \in DOMAIN appended["c2"] : appended["c2"][k].via = "a"

\* C10: a Get(name) that follows any sequence of completed Register calls returns
\* (chain, true) with the chain of the latest Register(name, _), and (nil, false)
\* when the name was never registered; a name maps to at most one chain; Get
\* changes neither Cmap nor any chain.
C10_RegistryLookup ==
    /\ [](\A n \in Names : Cmap[n] \in ChainIds \cup {Nil} /\ Cmap[n] = lastReg[n])
    /\ [][getResult' # getResult =>
             /\ getResult'.name \in Names
             /\ getResult'.chain = lastReg[getResult'.name]
             /\ getResult'.ok = (lastReg[getResult'.name] # Nil)
             /\ UNCHANGED <<Cmap, chain, mux, file, lastReg>>]_vars

\* a name registered twice is looked up: Get returns the second chain
C10_Witness ==
    /\ regCalls = 2
    /\ \E n \in Names :
          /\ lastReg[n] = "c2"
          /\ \A m \in Names \ {n} : lastReg[m] = Nil
          /\ getResult = [name |-> n, chain |-> "c2", ok |-> TRUE]

====
